---- MODULE Spec2Model ----
(***************************************************************************)
(* A model of src/main.rs: the winit ApplicationHandler `App` (resumed,    *)
(* window_event) and the wgpu `Renderer` (new, resize, render).            *)
(*                                                                         *)
(* The windowing system and the graphics backend are the environment:     *)
(* they choose which events arrive, the window's pixel size, the surface   *)
(* capabilities and the outcome of every get_current_texture().  Every     *)
(* call a handler makes into them is recorded, in program order, in        *)
(* `calls`, which holds the calls of the most recent handler invocation.   *)
(***************************************************************************)
EXTENDS Integers, Sequences, FiniteSets, TLC

VARIABLES
    window,         \* App.window: Option<Arc<Window>>, the window's id when Some
    renderer,       \* App.renderer: Option<Renderer>
    exiting,        \* event_loop.exit() has been called
    loop,           \* "running", "exited" (run_app returned) or "panicked"
    event,          \* the event the most recent handler invocation received
    calls,          \* the calls that invocation made, in program order
    render_result,  \* what renderer.render() returned in that invocation
    applied         \* history: the size of the last Resized event for the app's window
                    \* with both dimensions non-zero, or the window's inner size at
                    \* construction when there was none, and which of the two it is

vars == <<window, renderer, exiting, loop, event, calls, render_result, applied>>

----------------------------------------------------------------------------
(* Bounds of the model *)

MaxDim == 1          \* pixel dimensions range over 0..MaxDim, plus 800x600
MaxFormats == 2      \* longest list of surface formats the backend reports
MaxAlphaModes == 1   \* longest list of alpha modes the backend reports
MaxWindowId == 2     \* window ids the windowing system hands out

----------------------------------------------------------------------------
(* Values *)

None == [some |-> FALSE]
Some(v) == [some |-> TRUE, val |-> v]

Dims == 0..MaxDim
PhysicalSize == [width : Dims, height : Dims] \cup {[width |-> 800, height |-> 600]}
InnerSizes == PhysicalSize  \* window.inner_size() is taken as reported, zero included
WindowIds == 1..MaxWindowId

TextureFormats == {"Bgra8Unorm", "Bgra8UnormSrgb", "Rgba8Unorm", "Rgba8UnormSrgb"}
AlphaModes == {"Opaque", "PreMultiplied"}
SurfaceErrors == {"Timeout", "Outdated", "Lost", "OutOfMemory", "Other"}
AcquireOutcomes == {"Ok"} \cup SurfaceErrors

SeqsUpTo(S, n) == UNION {[1..k -> S] : k \in 0..n}

Call(op, arg) == [op |-> op, arg |-> arg]
Ops(cs) == {cs[i].op : i \in 1..Len(cs)}
Count(cs, op) == Cardinality({i \in 1..Len(cs) : cs[i].op = op})
First(cs, op) == CHOOSE i \in 1..Len(cs) : cs[i].op = op /\ \A j \in 1..(i - 1) : cs[j].op # op

----------------------------------------------------------------------------
(* Geometry: positions and colours in tenths *)

Vertex(p, c) == [position |-> p, color |-> c]

VERTICES == <<
    Vertex(<<-5, 5, 0>>, <<10, 0, 0>>),
    Vertex(<<-5, -5, 0>>, <<0, 10, 0>>),
    Vertex(<<5, -5, 0>>, <<0, 0, 10>>),
    Vertex(<<5, 5, 0>>, <<10, 10, 0>>) >>

INDICES == <<0, 1, 2, 0, 2, 3>>

SizeOfF32 == 4
SizeOfVertex == 2 * 3 * SizeOfF32

VertexDesc ==
    [array_stride |-> SizeOfVertex,
     step_mode |-> "Vertex",
     attributes |-> << [offset |-> 0, shader_location |-> 0, format |-> "Float32x3"],
                       [offset |-> 3 * SizeOfF32, shader_location |-> 1, format |-> "Float32x3"] >>]

RECURSIVE Flatten(_)
Flatten(ss) == IF ss = <<>> THEN <<>> ELSE Head(ss) \o Flatten(Tail(ss))

\* bytemuck::cast_slice(&[u16]) on a little-endian target: two bytes per index
CastSliceU16(xs) == Flatten([i \in 1..Len(xs) |-> <<xs[i] % 256, (xs[i] \div 256) % 256>>])

\* bytemuck::cast_slice(&[Vertex]): the f32 words of each vertex, in field order
CastSliceVertex(vs) == Flatten([i \in 1..Len(vs) |-> vs[i].position \o vs[i].color])

\* the index the GPU fetches at position i (0-based) of an index buffer
IndexBytes(fmt) == IF fmt = "Uint16" THEN 2 ELSE 4
RECURSIVE LittleEndian(_)
LittleEndian(bs) == IF bs = <<>> THEN 0 ELSE Head(bs) + 256 * LittleEndian(Tail(bs))
FetchIndex(buf, fmt, i) ==
    LET n == IndexBytes(fmt)
    IN  IF (i + 1) * n > Len(buf) THEN -1
        ELSE LittleEndian(SubSeq(buf, i * n + 1, (i + 1) * n))

\* number of whole vertices a vertex buffer of f32 words holds
VertexCount(buf, layout) == (Len(buf) * SizeOfF32) \div layout.array_stride

ClearColor == [r |-> 1, g |-> 2, b |-> 3, a |-> 10]

----------------------------------------------------------------------------
(* Renderer::new *)

is_srgb(f) == f \in {"Bgra8UnormSrgb", "Rgba8UnormSrgb"}

\* mutant: takes the first reported format without looking for an sRGB one
ChooseFormat_FirstReported(formats) == formats[1]

\* formats.iter().copied().find(|f| f.is_srgb()).unwrap_or(formats[0])
ChooseFormat(formats) ==
    LET srgb == {i \in 1..Len(formats) : is_srgb(formats[i])}
    IN  IF srgb = {} THEN formats[1]
        ELSE formats[CHOOSE i \in srgb : \A j \in srgb : i <= j]

SurfaceConfig(size, caps) ==
    [usage |-> "RENDER_ATTACHMENT",
     format |-> ChooseFormat(caps.formats),
     width |-> size.width,
     height |-> size.height,
     present_mode |-> "Fifo",
     desired_maximum_frame_latency |-> 2,
     alpha_mode |-> caps.alpha_modes[1],
     view_formats |-> <<>>]

RenderPipeline(config) ==
    [vertex |-> [entry_point |-> "vs_main", buffers |-> <<VertexDesc>>],
     fragment |-> [entry_point |-> "fs_main",
                   targets |-> << [format |-> config.format, blend |-> "REPLACE",
                                   write_mask |-> "ALL"] >>],
     topology |-> "TriangleList",
     front_face |-> "Ccw",
     cull_mode |-> "Back",
     polygon_mode |-> "Fill"]

NumIndices == Len(INDICES)

\* the Renderer value and the backend calls of Renderer::new, for a window of
\* pixel size `size` and surface capabilities `caps`; `surface` is the
\* configuration the surface currently has
RendererNew(size, caps) ==
    LET config == SurfaceConfig(size, caps)
    IN  [self |-> [surface |-> config,
                   config |-> config,
                   size |-> size,
                   render_pipeline |-> RenderPipeline(config),
                   vertex_buffer |-> CastSliceVertex(VERTICES),
                   index_buffer |-> CastSliceU16(INDICES),
                   num_indices |-> NumIndices],
         calls |-> << Call("inner_size", size),
                      Call("create_surface", <<>>),
                      Call("request_adapter", <<>>),
                      Call("request_device", <<>>),
                      Call("get_capabilities", caps),
                      Call("configure", config),
                      Call("create_shader_module", <<>>),
                      Call("create_pipeline_layout", <<>>),
                      Call("create_render_pipeline", RenderPipeline(config)),
                      Call("create_buffer_init", CastSliceVertex(VERTICES)),
                      Call("create_buffer_init", CastSliceU16(INDICES)) >>]

----------------------------------------------------------------------------
(* Renderer::resize *)

\* mutant: updates the stored size and config but does not reconfigure the surface
Resize_NoReconfigure(self, new_size) ==
    IF new_size.width > 0 /\ new_size.height > 0
    THEN LET config == [self.config EXCEPT !.width = new_size.width,
                                           !.height = new_size.height]
         IN  [self |-> [self EXCEPT !.size = new_size, !.config = config],
              calls |-> <<>>]
    ELSE [self |-> self, calls |-> <<>>]

\* mutant: the guard accepts a size with one zero dimension
Resize_EitherNonZero(self, new_size) ==
    IF new_size.width > 0 \/ new_size.height > 0
    THEN LET config == [self.config EXCEPT !.width = new_size.width,
                                           !.height = new_size.height]
         IN  [self |-> [self EXCEPT !.size = new_size, !.config = config,
                                    !.surface = config],
              calls |-> << Call("configure", config) >>]
    ELSE [self |-> self, calls |-> <<>>]

Resize(self, new_size) ==
    IF new_size.width > 0 /\ new_size.height > 0
    THEN LET config == [self.config EXCEPT !.width = new_size.width,
                                           !.height = new_size.height]
         IN  [self |-> [self EXCEPT !.size = new_size, !.config = config,
                                    !.surface = config],
              calls |-> << Call("configure", config) >>]
    ELSE [self |-> self, calls |-> <<>>]

----------------------------------------------------------------------------
(* Renderer::render; `acq` is the outcome of surface.get_current_texture() *)

\* mutant: the 16-bit index buffer is bound as 32-bit
IndexFormat_Uint32 == "Uint32"

IndexFormat == "Uint16"

RenderPass(self) ==
    << Call("begin_render_pass",
            [load |-> [op |-> "Clear", color |-> ClearColor], store |-> "Store"]),
       Call("set_pipeline", self.render_pipeline),
       Call("set_vertex_buffer", [slot |-> 0, buffer |-> self.vertex_buffer]),
       Call("set_index_buffer", [buffer |-> self.index_buffer, format |-> IndexFormat]),
       Call("draw_indexed", [indices |-> [start |-> 0, end |-> self.num_indices],
                             base_vertex |-> 0,
                             instances |-> [start |-> 0, end |-> 1]]) >>

\* mutant: the command buffer is submitted but the frame is never presented
Render_SubmitNoPresent(self, acq) ==
    IF acq # "Ok"
    THEN [result |-> acq,
          calls |-> << Call("get_current_texture",
                            [result |-> acq, width |-> 0, height |-> 0]) >>]
    ELSE [result |-> "Ok",
          calls |-> << Call("get_current_texture",
                            [result |-> "Ok", width |-> self.surface.width,
                             height |-> self.surface.height]),
                       Call("create_view", <<>>),
                       Call("create_command_encoder", <<>>) >>
                    \o RenderPass(self)
                    \o << Call("finish", <<>>),
                          Call("submit", 1) >>]

Render(self, acq) ==
    IF acq # "Ok"
    THEN [result |-> acq,
          calls |-> << Call("get_current_texture",
                            [result |-> acq, width |-> 0, height |-> 0]) >>]
    ELSE [result |-> "Ok",
          calls |-> << Call("get_current_texture",
                            [result |-> "Ok", width |-> self.surface.width,
                             height |-> self.surface.height]),
                       Call("create_view", <<>>),
                       Call("create_command_encoder", <<>>) >>
                    \o RenderPass(self)
                    \o << Call("finish", <<>>),
                          Call("submit", 1),
                          Call("present", <<>>) >>]

----------------------------------------------------------------------------
(* App::window_event *)

NotCalled == "NotCalled"

\* mutants of the error classification
ExitsOn_OnlyOutOfMemory(result) == result = "OutOfMemory"
ExitsOn_OnlyLost(result) == result = "Lost"
ExitsOn_AnyError(result) == result # "Ok"

\* Err(SurfaceError::Lost | SurfaceError::OutOfMemory) => event_loop.exit()
ExitsOn(result) == result \in {"Lost", "OutOfMemory"}

\* mutant: the next redraw is requested only after a successful render()
RedrawRequested_RequestAfterOk(self, acq) ==
    LET r == Render(self, acq)
    IN  [self |-> self,
         result |-> r.result,
         calls |-> r.calls
                   \o (IF ExitsOn(r.result) THEN << Call("exit", <<>>) >>
                       ELSE IF r.result # "Ok" THEN << Call("eprintln", r.result) >>
                       ELSE << Call("request_redraw", <<>>) >>)]

RedrawRequested(self, acq) ==
    LET r == Render(self, acq)
    IN  [self |-> self,
         result |-> r.result,
         calls |-> << Call("request_redraw", <<>>) >> \o r.calls
                   \o (IF ExitsOn(r.result) THEN << Call("exit", <<>>) >>
                       ELSE IF r.result # "Ok" THEN << Call("eprintln", r.result) >>
                       ELSE <<>>)]

\* mutant: the window id of the event is not compared
Dispatches_AnyWindow(w, r, window_id) == w.some /\ r.some

\* the guards at the top of window_event: both options are Some and the
\* event is for the app's window
Dispatches(w, r, window_id) == w.some /\ r.some /\ window_id = w.val

\* the handler's effect: the renderer afterwards, the calls made, and what
\* render() returned
HandleWindowEvent(w, r, window_id, ev, acq) ==
    IF ~Dispatches(w, r, window_id)
    THEN [renderer |-> r, calls |-> <<>>, result |-> NotCalled]
    ELSE CASE ev.kind = "CloseRequested" ->
                [renderer |-> r, calls |-> << Call("exit", <<>>) >>, result |-> NotCalled]
           [] ev.kind = "Resized" ->
                LET x == Resize(r.val, ev.size)
                IN  [renderer |-> Some(x.self), calls |-> x.calls, result |-> NotCalled]
           [] ev.kind = "RedrawRequested" ->
                LET x == RedrawRequested(r.val, acq)
                IN  [renderer |-> Some(x.self), calls |-> x.calls, result |-> x.result]
           [] OTHER ->
                [renderer |-> r, calls |-> <<>>, result |-> NotCalled]

NoSize == [width |-> 0, height |-> 0]
Event(kind, window_id, size) == [kind |-> kind, window_id |-> window_id, size |-> size]

WindowEvent(window_id, ev, acq) ==
    /\ loop = "running"
    /\ LET h == HandleWindowEvent(window, renderer, window_id, ev, acq)
       IN  /\ renderer' = h.renderer
           /\ calls' = h.calls
           /\ render_result' = h.result
           /\ exiting' = (exiting \/ "exit" \in Ops(h.calls))
    /\ event' = ev
    /\ applied' = IF /\ window.some /\ renderer.some /\ window_id = window.val
                     /\ ev.kind = "Resized" /\ ev.size.width > 0 /\ ev.size.height > 0
                  THEN [size |-> ev.size, from |-> "Resized"] ELSE applied
    /\ UNCHANGED <<window, loop>>

CloseRequestedEvent ==
    \E id \in WindowIds : WindowEvent(id, Event("CloseRequested", id, NoSize), "Ok")

ResizedEvent ==
    \E id \in WindowIds, s \in PhysicalSize : WindowEvent(id, Event("Resized", id, s), "Ok")

RedrawRequestedEvent ==
    \E id \in WindowIds, acq \in AcquireOutcomes :
        WindowEvent(id, Event("RedrawRequested", id, NoSize), acq)

OtherEvent ==
    \E id \in WindowIds : WindowEvent(id, Event("Focused", id, NoSize), "Ok")

----------------------------------------------------------------------------
(* App::resumed *)

Caps == [formats : SeqsUpTo(TextureFormats, MaxFormats),
         alpha_modes : SeqsUpTo(AlphaModes, MaxAlphaModes)]

\* what the environment answers during construction: which fallible call
\* fails, if any, the id and pixel size of the window, the capabilities
Failures == {"create_window", "create_surface", "request_adapter", "request_device"}
NoCaps == [formats |-> <<>>, alpha_modes |-> <<>>]
Setups == [failure : {"none"} \cup Failures, id : WindowIds,
           inner_size : InnerSizes, caps : Caps]

\* the answers a resumed() that finds the window already created never asks for
NoSetup == [failure |-> "none", id |-> 1, inner_size |-> [width |-> 1, height |-> 1],
            caps |-> NoCaps]

\* Renderer::new panics: an unwrap() of create_surface, request_adapter or
\* request_device, or formats[0] / alpha_modes[0] on an empty list
SetupPanics(s) ==
    \/ s.failure # "none"
    \/ s.caps.formats = <<>>
    \/ s.caps.alpha_modes = <<>>

\* the calls Renderer::new has made when it panics
CallsUntilPanic(s) ==
    LET all == << Call("inner_size", s.inner_size),
                  Call("create_surface", <<>>),
                  Call("request_adapter", <<>>),
                  Call("request_device", <<>>),
                  Call("get_capabilities", s.caps) >>
        n == CASE s.failure = "create_surface" -> 2
               [] s.failure = "request_adapter" -> 3
               [] s.failure = "request_device" -> 4
               [] OTHER -> 5
    IN  SubSeq(all, 1, n)

NeedsWindow(w) == ~w.some

Resumed(s) ==
    /\ loop = "running"
    /\ event' = Event("Resumed", 0, NoSize)
    /\ render_result' = NotCalled
    /\ UNCHANGED exiting
    /\ IF ~NeedsWindow(window)
       THEN /\ calls' = <<>>
            /\ UNCHANGED <<window, renderer, loop, applied>>
       ELSE IF s.failure = "create_window"
       THEN /\ calls' = << Call("create_window", <<>>) >>
            /\ loop' = "panicked"
            /\ UNCHANGED <<window, renderer, applied>>
       ELSE IF SetupPanics(s)
       THEN /\ calls' = << Call("create_window", <<>>) >> \o CallsUntilPanic(s)
            /\ window' = Some(s.id)
            /\ loop' = "panicked"
            /\ UNCHANGED <<renderer, applied>>
       ELSE LET x == RendererNew(s.inner_size, s.caps)
            IN  /\ calls' = << Call("create_window", <<>>) >> \o x.calls
                /\ window' = Some(s.id)
                /\ renderer' = Some(x.self)
                /\ applied' = [size |-> s.inner_size, from |-> "inner_size"]
                /\ UNCHANGED loop

ResumedEvent == \E s \in (IF NeedsWindow(window) THEN Setups ELSE {NoSetup}) : Resumed(s)

\* run_app returns once exit() was requested
LoopExit ==
    /\ loop = "running"
    /\ exiting
    /\ loop' = "exited"
    /\ UNCHANGED <<window, renderer, exiting, event, calls, render_result, applied>>

----------------------------------------------------------------------------

Init ==
    /\ window = None
    /\ renderer = None
    /\ exiting = FALSE
    /\ loop = "running"
    /\ event = Event("Init", 0, NoSize)
    /\ calls = <<>>
    /\ render_result = NotCalled
    /\ applied = [size |-> NoSize, from |-> "none"]

Next ==
    \/ ResumedEvent
    \/ CloseRequestedEvent
    \/ ResizedEvent
    \/ RedrawRequestedEvent
    \/ OtherEvent
    \/ LoopExit

Spec == Init /\ [][Next]_vars

TypeOK ==
    /\ loop \in {"running", "exited", "panicked"}
    /\ exiting \in BOOLEAN
    /\ window.some => window.val \in WindowIds
    /\ render_result \in {NotCalled} \cup AcquireOutcomes
    /\ applied.size \in PhysicalSize

----------------------------------------------------------------------------
(* Vocabulary of the properties *)

WindowEventKinds == {"CloseRequested", "Resized", "RedrawRequested", "Focused"}
Constructed == window.some /\ renderer.some

\* the state follows a window_event that got past the handler's two guards
Dispatched == Constructed /\ event.kind \in WindowEventKinds /\ event.window_id = window.val

\* the calls of the invocation whose op is `op`, in order
Args(cs, op) == [k \in 1..Count(cs, op) |->
    cs[CHOOSE i \in 1..Len(cs) : cs[i].op = op
           /\ Cardinality({j \in 1..i : cs[j].op = op}) = k].arg]

Before(cs, a, b) == First(cs, a) < First(cs, b)

\* the vertex indices the draw `d` fetches through the index buffer bound by `ib`
Fetched(d, ib) ==
    [k \in 1..(d.indices.end - d.indices.start) |->
        FetchIndex(ib.buffer, ib.format, d.indices.start + k - 1) + d.base_vertex]

SizeMatches(config, size) == config.width = size.width /\ config.height = size.height

----------------------------------------------------------------------------
(* C1: once the renderer exists, its stored size, its surface configuration
   and the configuration the surface was last given all carry the last
   non-zero size reported for the window (the initial inner size when no
   Resized event carried one), and every frame render() acquires has
   exactly those dimensions. *)
C1_SurfaceTracksLastResize ==
    renderer.some =>
        /\ renderer.val.size = applied.size
        /\ SizeMatches(renderer.val.config, applied.size)
        /\ SizeMatches(renderer.val.surface, applied.size)
        /\ \A i \in 1..Len(calls) :
              (calls[i].op = "get_current_texture" /\ calls[i].arg.result = "Ok")
                  => SizeMatches(calls[i].arg, applied.size)

\* a frame was acquired after a Resized event set a size
C1_Witness ==
    /\ Dispatched /\ event.kind = "RedrawRequested" /\ render_result = "Ok"
    /\ applied.from = "Resized"
    /\ applied.size = [width |-> 800, height |-> 600]
    /\ SizeMatches(Args(calls, "get_current_texture")[1], applied.size)

(* C2: a Resized event with a zero width or a zero height leaves the
   renderer (size, config, surface) as it was and makes no configure call. *)
C2_ZeroResizeIsNoOp ==
    [][(/\ renderer.some
        /\ event'.kind = "Resized"
        /\ (event'.size.width = 0 \/ event'.size.height = 0))
       => (renderer' = renderer /\ "configure" \notin Ops(calls'))]_vars

\* a dispatched Resized(0, h) with h > 0
C2_Witness ==
    /\ Dispatched /\ event.kind = "Resized"
    /\ event.size.width = 0 /\ event.size.height > 0
    /\ renderer.val.size.width > 0
    /\ calls = <<>>

(* C3: render() is all-or-nothing.  On a successful acquisition it records
   one render pass with one clear and one indexed draw of 6 indices, one
   instance, submits one command buffer, then presents once and returns Ok;
   on a failed acquisition it returns that error and records, submits and
   presents nothing. *)
C3_RenderAllOrNothing ==
    render_result # NotCalled =>
        /\ Count(calls, "get_current_texture") = 1
        /\ Args(calls, "get_current_texture")[1].result = render_result
        /\ Count(calls, "submit") <= 1
        /\ Count(calls, "submit") = Count(calls, "present")
        /\ IF render_result = "Ok"
           THEN /\ Count(calls, "begin_render_pass") = 1
                /\ Args(calls, "begin_render_pass")[1].load.op = "Clear"
                /\ Count(calls, "draw_indexed") = 1
                /\ Args(calls, "draw_indexed")[1].indices = [start |-> 0, end |-> 6]
                /\ Args(calls, "draw_indexed")[1].instances = [start |-> 0, end |-> 1]
                /\ Count(calls, "submit") = 1
                /\ Args(calls, "submit")[1] = 1
                /\ Count(calls, "present") = 1
                /\ Before(calls, "get_current_texture", "begin_render_pass")
                /\ Before(calls, "begin_render_pass", "draw_indexed")
                /\ Before(calls, "draw_indexed", "submit")
                /\ Before(calls, "submit", "present")
           ELSE /\ render_result \in SurfaceErrors
                /\ Ops(calls) \cap {"create_command_encoder", "begin_render_pass",
                                    "draw_indexed", "finish", "submit", "present"} = {}

\* a frame that was submitted and presented
C3_Witness ==
    /\ render_result = "Ok"
    /\ Count(calls, "submit") = 1
    /\ calls[Len(calls)].op = "present"

(* C4 as stated: a surface-lost acquisition error skips the frame and does
   not terminate the control loop. *)
C4_Original_LostContinues ==
    render_result = "Lost" => ("exit" \notin Ops(calls) /\ ~exiting)

(* C4 amended: a surface-lost acquisition error skips the frame (nothing is
   submitted or presented) and the handler requests termination of the
   control loop. *)
C4_LostExits ==
    render_result = "Lost" =>
        /\ Ops(calls) \cap {"submit", "present"} = {}
        /\ Count(calls, "exit") = 1
        /\ exiting

C4_Witness ==
    /\ Dispatched /\ event.kind = "RedrawRequested"
    /\ render_result = "Lost"
    /\ calls[Len(calls)].op = "exit"

(* C5: an out-of-memory acquisition error makes the handler call
   event_loop.exit(), whatever events came before. *)
C5_OutOfMemoryExits ==
    render_result = "OutOfMemory" => (Count(calls, "exit") = 1 /\ exiting)

\* out of memory on a frame after the window had been resized
C5_Witness ==
    /\ Dispatched /\ event.kind = "RedrawRequested"
    /\ render_result = "OutOfMemory"
    /\ applied.from = "Resized"
    /\ calls[Len(calls)].op = "exit"

(* C6: an acquisition error other than out-of-memory and surface-lost is
   only logged: the handler does not call exit(), submits nothing and
   leaves the renderer as it was; the next redraw-requested event for the
   window calls render() again. *)
LoggedErrors == SurfaceErrors \ {"OutOfMemory", "Lost"}

C6_OtherErrorsOnlyLogged ==
    [][/\ render_result' \in LoggedErrors =>
            /\ renderer' = renderer
            /\ exiting' = exiting
            /\ "exit" \notin Ops(calls')
            /\ Ops(calls') \cap {"submit", "present"} = {}
            /\ Args(calls', "eprintln") = << render_result' >>
       /\ (/\ render_result \in LoggedErrors
           /\ loop' = "running"
           /\ event'.kind = "RedrawRequested"
           /\ event'.window_id = window.val)
            => Count(calls', "get_current_texture") = 1]_vars

\* a timed-out frame with the loop still running
C6_Witness ==
    /\ Dispatched /\ event.kind = "RedrawRequested"
    /\ render_result = "Timeout"
    /\ calls[Len(calls)] = Call("eprintln", "Timeout")
    /\ ~exiting /\ loop = "running"

(* C7 as stated: a further redraw is requested only after the frame's
   render() has succeeded, and not for a frame whose render() failed. *)
C7_Original_RedrawAfterSuccess ==
    "request_redraw" \in Ops(calls) =>
        /\ render_result = "Ok"
        /\ Before(calls, "present", "request_redraw")

(* C7 amended: a redraw-requested event for the window requests a further
   redraw exactly once, before render() is called for that frame and
   whether that render() then succeeds or fails; no other event requests
   one. *)
C7_RedrawRequestedBeforeRender ==
    /\ render_result # NotCalled =>
          /\ Count(calls, "request_redraw") = 1
          /\ Before(calls, "request_redraw", "get_current_texture")
    /\ "request_redraw" \in Ops(calls) =>
          (Dispatched /\ event.kind = "RedrawRequested")

\* a failed frame that nevertheless requested the next redraw
C7_Witness ==
    /\ render_result = "Outdated"
    /\ calls[1].op = "request_redraw"
    /\ calls[2].op = "get_current_texture"

(* C8: resize() and render() run only once resumed() has created the window
   and the renderer; a window event that arrives before that, or for
   another window, changes nothing and calls nothing; resumed() creates the
   window and the renderer only when there is none; and a redraw-requested
   event for the window calls render() exactly once. *)
C8_LifecycleOrder ==
    [][loop' # "exited" =>
        /\ (/\ event'.kind \in WindowEventKinds
            /\ Ops(calls') \cap {"configure", "get_current_texture"} # {})
              => Constructed
        /\ (/\ event'.kind \in WindowEventKinds
            /\ ~(Constructed /\ event'.window_id = window.val))
              => /\ window' = window /\ renderer' = renderer
                 /\ exiting' = exiting /\ loop' = loop
                 /\ calls' = <<>> /\ render_result' = NotCalled
        /\ (event'.kind = "Resumed"
            /\ Ops(calls') \cap {"create_window", "create_surface"} # {})
              => (~window.some /\ ~renderer.some)
        /\ (event'.kind = "Resumed" /\ window.some)
              => (window' = window /\ renderer' = renderer /\ calls' = <<>>)
        /\ (/\ event'.kind = "RedrawRequested"
            /\ Constructed /\ event'.window_id = window.val)
              => (render_result' # NotCalled
                  /\ Count(calls', "get_current_texture") = 1)]_vars

\* a redraw-requested event for another window, after construction
C8_Witness ==
    /\ Constructed
    /\ event.kind = "RedrawRequested" /\ event.window_id # window.val
    /\ calls = <<>> /\ render_result = NotCalled

(* C9: construction configures the surface with the first sRGB format of
   the reported list, or with the first format when none is sRGB, and with
   the window's pixel size. *)
C9_FormatAndSizeAtConstruction ==
    (event.kind = "Resumed" /\ "configure" \in Ops(calls)) =>
        LET formats == Args(calls, "get_capabilities")[1].formats
            size    == Args(calls, "inner_size")[1]
            config  == Args(calls, "configure")[1]
        IN  /\ \/ \E i \in 1..Len(formats) :
                     /\ is_srgb(formats[i]) /\ config.format = formats[i]
                     /\ \A j \in 1..(i - 1) : ~is_srgb(formats[j])
               \/ /\ \A i \in 1..Len(formats) : ~is_srgb(formats[i])
                  /\ config.format = formats[1]
            /\ SizeMatches(config, size)
            /\ renderer.val.config = config
            /\ renderer.val.size = size

\* 800x600, with an sRGB format that is not the first of the list
C9_Witness ==
    /\ event.kind = "Resumed" /\ "configure" \in Ops(calls)
    /\ Args(calls, "get_capabilities")[1].formats = <<"Bgra8Unorm", "Rgba8UnormSrgb">>
    /\ renderer.val.config.format = "Rgba8UnormSrgb"
    /\ renderer.val.config.width = 800 /\ renderer.val.config.height = 600

(* C10: num_indices is 6 as long as the renderer exists, and the draw of
   every frame fetches the indices 0,1,2,0,2,3, each of them a position of
   the 4-vertex buffer. *)
C10_IndicesInRange ==
    renderer.some =>
        /\ renderer.val.num_indices = 6
        /\ render_result = "Ok" =>
              LET d  == Args(calls, "draw_indexed")[1]
                  ib == Args(calls, "set_index_buffer")[1]
                  vb == Args(calls, "set_vertex_buffer")[1]
                  layout == Args(calls, "set_pipeline")[1].vertex.buffers[vb.slot + 1]
              IN  /\ Fetched(d, ib) = <<0, 1, 2, 0, 2, 3>>
                  /\ VertexCount(vb.buffer, layout) = 4
                  /\ \A k \in 1..Len(Fetched(d, ib)) :
                        Fetched(d, ib)[k] \in 0..(VertexCount(vb.buffer, layout) - 1)

\* a frame drawn after a resize
C10_Witness ==
    /\ render_result = "Ok"
    /\ applied.from = "Resized"
    /\ Count(calls, "draw_indexed") = 1

====
